---- MODULE Spec2Model ----
(***************************************************************************)
(* Model of the IntelliNotes persistence gateway (app/utils.py, class      *)
(* DBOracle) and of the Streamlit orchestration layer that drives it       *)
(* (app/main.py).                                                          *)
(*                                                                         *)
(* Conventions                                                             *)
(*   - A Python value that may be None is a set with at most one element:  *)
(*     None is {} and the value v is {v}.                                  *)
(*   - Large texts (CLOB contents, template names) are sequences of code   *)
(*     points, so that writing into a LOB and ORDER BY NAME are computed.  *)
(*   - Short scalar texts (event, model, error message, feedback) are      *)
(*     strings; they are bound to the statement unchanged.                 *)
(*   - Each driver call (connect, createlob/cursor, execute, commit,       *)
(*     fetchall/read, close) either succeeds or raises; which one happens  *)
(*     is chosen by the environment at the step.                           *)
(***************************************************************************)
EXTENDS Integers, Sequences, FiniteSets, TLC

VARIABLES
    calls,        \* number of gateway calls started so far
    logTable,     \* committed rows of INTELLINOTES_LOG, in commit order
    fbTable,      \* committed rows of IntelliNotes_Feedback, in commit order
    seq,          \* last value handed out by SQ_INTELLINOTES_LOG
    conns,        \* every connection oracledb.connect ever returned
    op,           \* per caller: the gateway method in progress
    pc,           \* per caller: position inside that method
    args,         \* per caller: the arguments of the call
    conn,         \* per caller: the local variable `connection` (0: none)
    pend,         \* per caller: what the method is about to return
    res,          \* per caller: what the last call delivered to its caller
    faults,       \* per caller: the driver calls that raised in this call
    tally,        \* per caller: connects, executes, commits, rows written, LOGID drawn
    seen,         \* per caller: INTELLINOTES_PROMPTS as the call's SELECT found it
    binds,        \* per caller: the bind dictionary of the statement about to run
    ui            \* per caller: the Streamlit session driving the gateway

vars == <<calls, logTable, fbTable, seq, conns,
          op, pc, args, conn, pend, res, faults, tally, seen, binds, ui>>

(***************************************************************************)
(* Bounds of the model.                                                    *)
(***************************************************************************)
MaxCalls == 2

Procs == {1, 2}

\* time.time() and datetime.datetime.now(): time is counted in gateway calls
\* started, so it never runs backwards and two calls may share a reading.
Now == calls

None == {}
Some(v) == {v}
Val(o) == CHOOSE v \in o : TRUE

\* Python truthiness of an optional text: None and "" are falsy.
Truthy(o) == o # None /\ Val(o) # <<>>

(***************************************************************************)
(* Texts, as code points.                                                  *)
(***************************************************************************)
TxtHi == <<104, 105>>
TxtBye == <<98, 121, 101>>
TxtAsk == <<63>>
TxtBlank == <<32>>
TxtHiPadded == <<160, 104, 105, 32>>
NameSales == <<83, 97, 108, 101, 115>>
NameGeneralMeeting ==
    <<71, 101, 110, 101, 114, 97, 108, 32, 77, 101, 101, 116, 105, 110, 103>>
NameCustomTemplate ==
    <<67, 117, 115, 116, 111, 109, 32, 84, 101, 109, 112, 108, 97, 116, 101>>
NameCustomPrompt ==
    <<67, 117, 115, 116, 111, 109, 32, 80, 114, 111, 109, 112, 116>>

(***************************************************************************)
(* Large objects: connection.createlob, LOB.write(data) and LOB.read().    *)
(***************************************************************************)
CreateLob == [data |-> <<>>]

\* LOB.write(data, offset = 1): overwrite from the first character on.
LobWrite(lob, text) ==
    [data |-> text \o SubSeq(lob.data, Len(text) + 1, Len(lob.data))]

LobRead(lob) == lob.data

\* `clob = createlob(); if text: clob.write(text)` ... `clob if text else None`:
\* what is bound is the large object itself, or None for a text that is
\* None or empty.
BindLob(text) ==
    LET clob == IF Truthy(text) THEN LobWrite(CreateLob, Val(text)) ELSE CreateLob
    IN  IF Truthy(text) THEN Some(clob) ELSE None


(***************************************************************************)
(* What a call is about to return, or has delivered: a returned bool       *)
(* (log_entry, log_feedback), a returned list (fetch_templates), or an     *)
(* exception that left the method.                                         *)
(* get_connection, called on its own, returns a connection or None.        *)
(***************************************************************************)
NoOutcome == [kind |-> "none", bool |-> FALSE, list |-> <<>>]
RetBool(b) == [kind |-> "return", bool |-> b, list |-> <<>>]
RetList(l) == [kind |-> "return", bool |-> FALSE, list |-> l]
Raised == [kind |-> "raise", bool |-> FALSE, list |-> <<>>]

\* What get_connection returns to a caller of its own: the connection c (the
\* caller's `connection`), or None, written 0.  bool is its truthiness.
RetConn(c) == [kind |-> "return", bool |-> c # 0, list |-> <<>>]

\* `return False` of the two writers, `return []` of fetch_templates,
\* `return None` of get_connection.
FailureOf(o) ==
    CASE o = "fetch_templates" -> RetList(<<>>)
      [] o = "get_connection" -> RetConn(0)
      [] OTHER -> RetBool(FALSE)

NoTally == [connects |-> 0, executes |-> 0, commits |-> 0, wrote |-> 0, logid |-> 0]

(***************************************************************************)
(* Inputs of log_entry: a call that gives every parameter, one that gives  *)
(* every optional parameter as empty text or zero, and the call the        *)
(* repository's test makes.  Texts are kept short.                         *)
(***************************************************************************)
FullLogArgs ==
    [event |-> Some("Meeting Summary"), model |-> Some("Ollama"),
     input_message |-> Some(TxtBye), output_message |-> Some(TxtHi),
     input_tokens |-> Some(3), output_tokens |-> Some(2),
     duration |-> Some(1), error_message |-> Some("boom"), user_id |-> Some(7),
     user_rating |-> Some(5), user_feedback |-> Some("great"),
     created_date |-> Some(9), custom_prompt |-> Some(TxtHi)]

EmptyLogArgs ==
    [event |-> Some("Test Log"), model |-> Some("Test Model"),
     input_message |-> Some(<<>>), output_message |-> Some(<<>>),
     input_tokens |-> Some(0), output_tokens |-> Some(0),
     duration |-> Some(0), error_message |-> Some(""), user_id |-> Some(0),
     user_rating |-> Some(0), user_feedback |-> Some(""),
     created_date |-> None, custom_prompt |-> Some(<<>>)]

\* The call of DBOracle_test.py 40-50; its duration, 2.2, in tenths.
TestLogArgs ==
    [event |-> Some("Test Log"), model |-> Some("Test Model"),
     input_message |-> Some(TxtHi), output_message |-> Some(TxtBye),
     input_tokens |-> Some(100), output_tokens |-> Some(50),
     duration |-> Some(22), error_message |-> None, user_id |-> Some(1),
     user_rating |-> None, user_feedback |-> None, created_date |-> None,
     custom_prompt |-> Some(TxtAsk)]

LogArgs == {FullLogArgs, EmptyLogArgs, TestLogArgs}

\* log_feedback(logid, user_id, user_feedback, user_rating, created_date = None)
FeedbackArgs ==
    {[logid |-> Some(l), user_id |-> Some(101),
      user_feedback |-> Some("The summary quality exceeded my expectations."),
      user_rating |-> Some(5), created_date |-> None] : l \in {1, 5001}}

\* Rows of INTELLINOTES_PROMPTS: NAME, ICON, DESCRIPTION, PROMPT (a CLOB or NULL).
Template(name, prompt) ==
    [name |-> name, icon |-> "icon", description |-> "description", prompt |-> prompt]

\* The contents the table may have, maintained out of band; in storage order.
Catalogs ==
    {<<>>,
     <<Template(NameSales, Some([data |-> TxtHi])),
       Template(NameGeneralMeeting, Some([data |-> TxtBye])),
       Template(NameCustomTemplate, None)>>,
     <<Template(NameGeneralMeeting, Some([data |-> TxtBye])),
       Template(NameCustomPrompt, Some([data |-> <<>>]))>>,
     <<Template(NameSales, Some([data |-> TxtHi]))>>}

(***************************************************************************)
(* ORDER BY NAME: ascending, comparing code points from the left.          *)
(***************************************************************************)
RECURSIVE NameLess(_, _)
NameLess(a, b) ==
    IF b = <<>> THEN FALSE
    ELSE IF a = <<>> THEN TRUE
    ELSE IF Head(a) # Head(b) THEN Head(a) < Head(b)
    ELSE NameLess(Tail(a), Tail(b))

\* Stable insertion of a row into rows already in order.
RECURSIVE InsertByName(_, _)
InsertByName(row, sorted) ==
    IF sorted = <<>> THEN <<row>>
    ELSE IF NameLess(row.name, Head(sorted).name)
         THEN <<row>> \o sorted
         ELSE <<Head(sorted)>> \o InsertByName(row, Tail(sorted))

RECURSIVE OrderByNameFrom(_, _)
OrderByNameFrom(rows, sorted) ==
    IF rows = <<>> THEN sorted
    ELSE OrderByNameFrom(Tail(rows), InsertByName(Head(rows), sorted))

\* The same SELECT without its ORDER BY clause: rows come in storage order.
OrderByNameMutant(rows) == rows

OrderByName(rows) == OrderByNameFrom(rows, <<>>)

\* The list comprehension of fetch_templates over cursor.fetchall().
MaterializeRow(row) ==
    [name |-> row.name, icon |-> row.icon, description |-> row.description,
     prompt |-> IF row.prompt # None THEN Some(LobRead(Val(row.prompt))) ELSE None]

Materialize(rows) == [i \in 1..Len(rows) |-> MaterializeRow(rows[i])]

(***************************************************************************)
(* The gateway: DBOracle.get_connection, log_entry, log_feedback and       *)
(* fetch_templates, one action per driver call.                            *)
(*                                                                         *)
(* pc:  idle -> acquiring -> unavailable -> returned                       *)
(*                        -> connected -> executing [-> bound -> executed] *)
(*                             -> committed -> exited | fetched            *)
(*                                | uncommitted                            *)
(*                             -> released -> returned                     *)
(* and, for get_connection called on its own (DBOracle_test.py 26-32):     *)
(*      idle -> acquiring -> handed | unavailable -> returned              *)
(*                        -> idle | stopped                                *)
(***************************************************************************)
Ops == {"log_entry", "log_feedback", "fetch_templates"}

\* The caller is in no gateway method, and n more calls fit the bound.
CanCall(p, n) == pc[p] \in {"idle", "returned"} /\ calls + n <= MaxCalls

\* Entry into a gateway method with arguments a.
Enter(p, o, a) ==
    /\ op' = [op EXCEPT ![p] = o]
    /\ pc' = [pc EXCEPT ![p] = "acquiring"]
    /\ args' = [args EXCEPT ![p] = a]
    /\ conn' = [conn EXCEPT ![p] = 0]
    /\ pend' = [pend EXCEPT ![p] = NoOutcome]
    /\ res' = [res EXCEPT ![p] = NoOutcome]
    /\ faults' = [faults EXCEPT ![p] = {}]
    /\ tally' = [tally EXCEPT ![p] = NoTally]
    /\ seen' = [seen EXCEPT ![p] = <<>>]
    /\ binds' = [binds EXCEPT ![p] = <<>>]

\* A caller other than the Streamlit page (DBOracle_test.py) calls one of
\* the three operations.
DirectCall(p) ==
    /\ CanCall(p, 1)
    /\ ui[p].pc = "idle"
    /\ op[p] = "get_connection" => pc[p] = "idle"
    /\ calls' = calls + 1
    /\ \/ \E a \in LogArgs : Enter(p, "log_entry", a)
       \/ \E a \in FeedbackArgs : Enter(p, "log_feedback", a)
       \/ Enter(p, "fetch_templates", <<>>)
    /\ UNCHANGED <<logTable, fbTable, seq, conns, ui>>

\* DBOracle_test.py 24-26: before anything else the test tries the
\* connection, calling get_connection itself; what it does with the result
\* is CheckConnection.
TestConnection(p) ==
    /\ op[p] = "none" /\ pc[p] = "idle"
    /\ ui[p].pc = "idle"
    /\ Enter(p, "get_connection", <<>>)
    /\ UNCHANGED <<calls, logTable, fbTable, seq, conns, ui>>

\* A connection: who is to close it (the operation that opened it, or the
\* caller get_connection handed it to), whether it is open, how often
\* close() was called on it, its uncommitted inserts and the result set of
\* its cursor.
NewConnection(o) ==
    [by |-> IF o = "get_connection" THEN "caller" ELSE "operation",
     state |-> "open", closes |-> 0, txn |-> <<>>, cursor |-> <<>>]

\* get_connection, and the `if not connection` of its caller.
\*   oracledb.connect returns: the method goes on with the connection;
\*   it raises oracledb.DatabaseError: get_connection returns None and the
\*     method returns False / [];
\*   it raises anything else: nothing catches it, it leaves the method.
\* Called on its own, get_connection hands the connection, or None, to its
\* caller.
GetConnection(p) ==
    /\ pc[p] = "acquiring"
    /\ tally' = [tally EXCEPT ![p].connects = @ + 1]
    /\ \/ /\ conns' = Append(conns, NewConnection(op[p]))
          /\ conn' = [conn EXCEPT ![p] = Len(conns) + 1]
          /\ IF op[p] = "get_connection"
             THEN /\ pend' = [pend EXCEPT ![p] = RetConn(Len(conns) + 1)]
                  /\ pc' = [pc EXCEPT ![p] = "handed"]
             ELSE /\ pc' = [pc EXCEPT ![p] = "connected"]
                  /\ UNCHANGED pend
          /\ UNCHANGED faults
       \/ /\ pend' = [pend EXCEPT ![p] = FailureOf(op[p])]
          /\ faults' = [faults EXCEPT ![p] = @ \cup {"connect"}]
          /\ pc' = [pc EXCEPT ![p] = "unavailable"]
          /\ UNCHANGED <<conns, conn>>
       \/ /\ pend' = [pend EXCEPT ![p] = Raised]
          /\ faults' = [faults EXCEPT ![p] = @ \cup {"connect"}]
          /\ pc' = [pc EXCEPT ![p] = "unavailable"]
          /\ UNCHANGED <<conns, conn>>
    /\ UNCHANGED <<calls, logTable, fbTable, seq, op, args, res, seen, binds, ui>>

\* `except Exception: ... return False` (`return []` in fetch_templates).
ExceptMutant(p, step) ==
    /\ pend' = pend
    /\ faults' = [faults EXCEPT ![p] = @ \cup {step}]
    /\ pc' = [pc EXCEPT ![p] = "executing"]

Except(p, step) ==
    /\ pend' = [pend EXCEPT ![p] = FailureOf(op[p])]
    /\ faults' = [faults EXCEPT ![p] = @ \cup {step}]
    /\ pc' = [pc EXCEPT ![p] = "uncommitted"]

\* The connection passed `if not connection`; the try block is entered.
Begin(p) ==
    /\ pc[p] = "connected"
    /\ pc' = [pc EXCEPT ![p] = "executing"]
    /\ UNCHANGED <<calls, logTable, fbTable, seq, conns,
                   op, args, conn, pend, res, faults, tally, seen, binds, ui>>

\* SQ_INTELLINOTES_LOG.NEXTVAL: the store's sequence generator.
NextValMutant(s) == Len(logTable) + 1

NextVal(s) == s + 1

\* The bind dictionary of log_entry's INSERT (73-87), built before
\* cursor.execute is called: the LOBs are created and written, and the clock
\* is read here.  A created_date is a datetime, which is never falsy:
\* `created_date or now()` takes now() exactly when none was given.
EventBinds(a, now) ==
    [event |-> a.event,
     model |-> a.model,
     input_message |-> BindLob(a.input_message),
     output_message |-> BindLob(a.output_message),
     input_tokens |-> a.input_tokens,
     output_tokens |-> a.output_tokens,
     duration |-> a.duration,
     error_message |-> a.error_message,
     user_id |-> a.user_id,
     user_rating |-> a.user_rating,
     user_feedback |-> a.user_feedback,
     created_date |-> IF a.created_date # None THEN a.created_date ELSE Some(now),
     custom_prompt |-> BindLob(a.custom_prompt)]

\* What the store keeps of one bound value.  Oracle has no zero-length
\* string: a bind of '' is stored as NULL, whatever the column.  Every other
\* value, None included, is stored as bound.  Binds are numbers, strings and
\* large objects, so the test is made on the printed value.
Stored(v) == IF ToString(v) = ToString(Some("")) THEN None ELSE v

StoredRow(b) == [f \in DOMAIN b |-> Stored(b[f])]

\* The row the INSERT of log_entry writes: what the store keeps of the bound
\* values, under the LOGID the statement draws.
EventRow(b, logid) ==
    [f \in DOMAIN b \cup {"logid"} |->
        IF f = "logid" THEN logid ELSE Stored(b[f])]

\* The bind dictionary of log_feedback's INSERT (126-132).
FeedbackRow(a, now) ==
    [logid |-> a.logid,
     user_id |-> a.user_id,
     user_feedback |-> a.user_feedback,
     user_rating |-> a.user_rating,
     created_date |-> IF a.created_date # None THEN a.created_date ELSE Some(now)]

\* What precedes cursor.execute inside the try: connection.cursor(), in
\* log_entry the three createlob / write pairs, and the bind dictionary with
\* its reading of the clock.  Another caller's steps can come between this
\* and the execution of the statement.
Bind(p) ==
    /\ pc[p] = "executing"
    /\ \/ /\ binds' = [binds EXCEPT ![p] =
                          CASE op[p] = "log_entry" -> EventBinds(args[p], Now)
                            [] op[p] = "log_feedback" -> FeedbackRow(args[p], Now)
                            [] OTHER -> <<>>]
          /\ pc' = [pc EXCEPT ![p] = "bound"]
          /\ UNCHANGED <<pend, faults>>
       \/ /\ Except(p, "prepare")
          /\ UNCHANGED binds
    /\ UNCHANGED <<calls, logTable, fbTable, seq, conns,
                   op, args, conn, res, tally, seen, ui>>

\* log_entry 63-87: cursor.execute.  The statement draws its LOGID from the
\* sequence when it runs; a statement that fails draws nothing.
ExecuteLogEntry(p) ==
    /\ pc[p] = "bound" /\ op[p] = "log_entry"
    /\ \/ /\ seq' = NextVal(seq)
          /\ conns' = [conns EXCEPT ![conn[p]].txn =
                          Append(@, EventRow(binds[p], NextVal(seq)))]
          /\ tally' = [tally EXCEPT ![p].executes = @ + 1, ![p].logid = NextVal(seq)]
          /\ pc' = [pc EXCEPT ![p] = "executed"]
          /\ UNCHANGED <<pend, faults>>
       \/ /\ Except(p, "execute")
          /\ tally' = [tally EXCEPT ![p].executes = @ + 1]
          /\ UNCHANGED <<seq, conns>>
    /\ binds' = [binds EXCEPT ![p] = <<>>]
    /\ UNCHANGED <<calls, logTable, fbTable, op, args, conn, res, seen, ui>>

\* log_feedback 120-132: cursor.execute, a plain insert with no look-up of
\* the log id.
ExecuteFeedbackMutant(p) ==
    /\ pc[p] = "bound" /\ op[p] = "log_feedback"
    /\ tally' = [tally EXCEPT ![p].executes = @ + 1]
    /\ IF \E i \in 1..Len(logTable) : Some(logTable[i].logid) = args[p].logid
       THEN /\ conns' = [conns EXCEPT ![conn[p]].txn = Append(@, StoredRow(binds[p]))]
            /\ pc' = [pc EXCEPT ![p] = "executed"]
            /\ UNCHANGED <<pend, faults>>
       ELSE /\ pend' = [pend EXCEPT ![p] = FailureOf(op[p])]
            /\ pc' = [pc EXCEPT ![p] = "uncommitted"]
            /\ UNCHANGED <<conns, faults>>
    /\ binds' = [binds EXCEPT ![p] = <<>>]
    /\ UNCHANGED <<calls, logTable, fbTable, seq, op, args,
                   conn, res, seen, ui>>

ExecuteFeedback(p) ==
    /\ pc[p] = "bound" /\ op[p] = "log_feedback"
    /\ \/ /\ conns' = [conns EXCEPT ![conn[p]].txn = Append(@, StoredRow(binds[p]))]
          /\ tally' = [tally EXCEPT ![p].executes = @ + 1]
          /\ pc' = [pc EXCEPT ![p] = "executed"]
          /\ UNCHANGED <<pend, faults>>
       \/ /\ Except(p, "execute")
          /\ tally' = [tally EXCEPT ![p].executes = @ + 1]
          /\ UNCHANGED conns
    /\ binds' = [binds EXCEPT ![p] = <<>>]
    /\ UNCHANGED <<calls, logTable, fbTable, seq, op, args,
                   conn, res, seen, ui>>

\* fetch_templates 158-162: cursor.execute of SELECT ... ORDER BY NAME, over
\* the table as it is at that moment (it is maintained out of band).
ExecuteSelect(p) ==
    /\ pc[p] = "bound" /\ op[p] = "fetch_templates"
    /\ \/ \E table \in Catalogs :
             /\ seen' = [seen EXCEPT ![p] = table]
             /\ conns' = [conns EXCEPT ![conn[p]].cursor = OrderByName(table)]
             /\ tally' = [tally EXCEPT ![p].executes = @ + 1]
             /\ pc' = [pc EXCEPT ![p] = "executed"]
             /\ UNCHANGED <<pend, faults>>
       \/ /\ Except(p, "execute")
          /\ tally' = [tally EXCEPT ![p].executes = @ + 1]
          /\ UNCHANGED <<conns, seen>>
    /\ binds' = [binds EXCEPT ![p] = <<>>]
    /\ UNCHANGED <<calls, logTable, fbTable, seq, op, args, conn, res, ui>>

\* connection.commit() of the two writers; `return True` is then pending.
Commit(p) ==
    /\ pc[p] = "executed" /\ op[p] \in {"log_entry", "log_feedback"}
    /\ \/ /\ IF op[p] = "log_entry"
             THEN /\ logTable' = logTable \o conns[conn[p]].txn
                  /\ UNCHANGED fbTable
             ELSE /\ fbTable' = fbTable \o conns[conn[p]].txn
                  /\ UNCHANGED logTable
          /\ conns' = [conns EXCEPT ![conn[p]].txn = <<>>]
          /\ tally' = [tally EXCEPT ![p].commits = @ + 1,
                                    ![p].wrote = @ + Len(conns[conn[p]].txn)]
          /\ pend' = [pend EXCEPT ![p] = RetBool(TRUE)]
          /\ pc' = [pc EXCEPT ![p] = "committed"]
          /\ UNCHANGED faults
       \/ /\ Except(p, "commit")
          /\ tally' = [tally EXCEPT ![p].commits = @ + 1]
          /\ UNCHANGED <<logTable, fbTable, conns>>
    /\ UNCHANGED <<calls, seq, op, args, conn, res, seen, binds, ui>>

\* `return True` leaves `with connection.cursor() as cursor:`, which calls
\* cursor.__exit__.  When that raises, `except Exception` makes the call
\* return False, although the row is committed.  (Leaving the block on an
\* exception calls it too; the call returns False either way.  The cursor
\* of fetch_templates is in no `with`.)
CursorExit(p) ==
    /\ pc[p] = "committed"
    /\ \/ UNCHANGED <<pend, faults>>
       \/ /\ pend' = [pend EXCEPT ![p] = FailureOf(op[p])]
          /\ faults' = [faults EXCEPT ![p] = @ \cup {"cursor_exit"}]
    /\ pc' = [pc EXCEPT ![p] = "exited"]
    /\ UNCHANGED <<calls, logTable, fbTable, seq, conns,
                   op, args, conn, res, tally, seen, binds, ui>>

\* cursor.fetchall() and row[3].read() of fetch_templates, then `return templates`.
Fetch(p) ==
    /\ pc[p] = "executed" /\ op[p] = "fetch_templates"
    /\ \/ /\ pend' = [pend EXCEPT ![p] = RetList(Materialize(conns[conn[p]].cursor))]
          /\ pc' = [pc EXCEPT ![p] = "fetched"]
          /\ UNCHANGED faults
       \/ Except(p, "fetch")
    /\ UNCHANGED <<calls, logTable, fbTable, seq, conns,
                   op, args, conn, res, tally, seen, binds, ui>>

\* `finally: connection.close()`.  Closing discards what was not committed.
\* When close() raises, its exception replaces the pending return value.
CloseMutant(p) ==
    /\ pc[p] \in {"exited", "fetched", "uncommitted"}
    /\ IF pc[p] = "uncommitted"
       THEN UNCHANGED <<conns, pend, faults>>
       ELSE /\ conns' = [conns EXCEPT ![conn[p]].state = "closed",
                                      ![conn[p]].closes = @ + 1,
                                      ![conn[p]].txn = <<>>,
                                    ![conn[p]].cursor = <<>>]
            /\ UNCHANGED <<pend, faults>>
    /\ pc' = [pc EXCEPT ![p] = "released"]
    /\ UNCHANGED <<calls, logTable, fbTable, seq,
                   op, args, conn, res, tally, seen, binds, ui>>

Close(p) ==
    /\ pc[p] \in {"exited", "fetched", "uncommitted"}
    /\ \/ /\ conns' = [conns EXCEPT ![conn[p]].state = "closed",
                                    ![conn[p]].closes = @ + 1,
                                    ![conn[p]].txn = <<>>,
                                    ![conn[p]].cursor = <<>>]
          /\ UNCHANGED <<pend, faults>>
       \/ /\ conns' = [conns EXCEPT ![conn[p]].state = "lost",
                                    ![conn[p]].closes = @ + 1,
                                    ![conn[p]].txn = <<>>,
                                    ![conn[p]].cursor = <<>>]
          /\ pend' = [pend EXCEPT ![p] = Raised]
          /\ faults' = [faults EXCEPT ![p] = @ \cup {"close"}]
    /\ pc' = [pc EXCEPT ![p] = "released"]
    /\ UNCHANGED <<calls, logTable, fbTable, seq,
                   op, args, conn, res, tally, seen, binds, ui>>

\* Control goes back to the caller, with the return value or the exception.
Return(p) ==
    /\ pc[p] \in {"released", "unavailable", "handed"}
    /\ res' = [res EXCEPT ![p] = pend[p]]
    /\ pc' = [pc EXCEPT ![p] = "returned"]
    /\ UNCHANGED <<calls, logTable, fbTable, seq, conns,
                   op, args, conn, pend, faults, tally, seen, binds, ui>>

\* DBOracle_test.py 27-32: the caller of get_connection closes the
\* connection it was handed and goes on; handed None it returns, and an
\* exception of get_connection or of close() ends it.
CheckConnection(p) ==
    /\ pc[p] = "returned" /\ op[p] = "get_connection"
    /\ IF res[p].kind = "return" /\ res[p].bool
       THEN \/ /\ conns' = [conns EXCEPT ![conn[p]].state = "closed",
                                         ![conn[p]].closes = @ + 1]
               /\ pc' = [pc EXCEPT ![p] = "idle"]
               /\ UNCHANGED faults
            \/ /\ conns' = [conns EXCEPT ![conn[p]].state = "lost",
                                         ![conn[p]].closes = @ + 1]
               /\ pc' = [pc EXCEPT ![p] = "stopped"]
               /\ faults' = [faults EXCEPT ![p] = @ \cup {"close"}]
       ELSE /\ pc' = [pc EXCEPT ![p] = "stopped"]
            /\ UNCHANGED <<conns, faults>>
    /\ UNCHANGED <<calls, logTable, fbTable, seq,
                   op, args, conn, pend, res, tally, seen, binds, ui>>

(***************************************************************************)
(* The orchestration layer: one Streamlit session per caller (main.py).    *)
(* Every interaction reruns the script: the sidebar (which fetches the     *)
(* templates), then the Generate Summary handler when its button was       *)
(* pressed.  Submit Feedback runs handle_feedback_submission.              *)
(***************************************************************************)
ErrTemplates == "Error fetching templates."
ErrNoTemplates == "No templates found in the database."
ErrUnsupported == "Unsupported file format."
ErrGenerate == "Error generating summary."
ErrFeedbackFailed == "Failed to submit feedback. Please try again."
ErrFeedback == "Error saving feedback."
WarnTranscript == "Please provide a transcript."
WarnCustomPrompt == "Please provide a custom prompt."
OkFeedback == "Thank you for your feedback!"
Interrupted == "RerunException"
Uncaught == "NameError"
UncaughtDecode == "UnicodeDecodeError"
UncaughtDocx == "BadZipFile"

\* st.error banners
ErrorBanners ==
    {ErrTemplates, ErrNoTemplates, ErrUnsupported, ErrGenerate, ErrFeedbackFailed,
     ErrFeedback}

\* st.session_state: the keys the Generate Summary handler saves (119-128);
\* a key that is not there is None.
NoSessionState ==
    [transcript |-> None, response |-> None, input_tokens |-> None,
     output_tokens |-> None, duration |-> None, user_id |-> None]

\* st.session_state.get(key, default)
Get(o, default) == IF o # None THEN o ELSE Some(default)

\* A session before its first interaction.
NewSession ==
    [pc |-> "idle", run |-> "none", start |-> 0,
     meeting_type |-> None, prompt_defined |-> FALSE, selected_prompt |-> None,
     custom_prompt |-> None, transcript |-> <<>>, session_state |-> NoSessionState,
     banners |-> {}, llm |-> "none", logged |-> FALSE,
     logres |-> NoOutcome, success_logged |-> FALSE]

\* What a rerun of the script starts from: st.session_state survives.
Rerun(s, run, now) ==
    [NewSession EXCEPT !.run = run, !.start = now,
                       !.session_state = s.session_state]

\* str.strip(): leading and trailing white space removed, which is every
\* character str.isspace() holds of.
WhiteSpace ==
    (9..13) \cup (28..32) \cup {133, 160, 5760} \cup (8192..8202)
    \cup {8232, 8233, 8239, 8287, 12288}

RECURSIVE LStrip(_)
LStrip(t) == IF t # <<>> /\ Head(t) \in WhiteSpace THEN LStrip(Tail(t)) ELSE t

RECURSIVE RStrip(_)
RStrip(t) ==
    IF t # <<>> /\ t[Len(t)] \in WhiteSpace THEN RStrip(SubSeq(t, 1, Len(t) - 1))
    ELSE t

Strip(t) == RStrip(LStrip(t))

\* "\n".join(p.text for p in doc.paragraphs)
RECURSIVE JoinLines(_)
JoinLines(paragraphs) ==
    IF paragraphs = <<>> THEN <<>>
    ELSE IF Len(paragraphs) = 1 THEN paragraphs[1]
    ELSE paragraphs[1] \o <<10>> \o JoinLines(Tail(paragraphs))

\* What the user gives as transcript: pasted text; an uploaded text/plain
\* file (its decoded contents, or bytes that are not UTF-8); an uploaded
\* .docx (its paragraphs, or a file python-docx cannot open); an uploaded
\* file of another type; or "Upload File" with no file.
Inputs ==
    {[kind |-> "text", raw |-> t] : t \in {<<>>, TxtBlank, TxtHiPadded}}
    \cup {[kind |-> "txt", raw |-> t] : t \in {<<>>, TxtBlank}}
    \cup {[kind |-> "docx", raw |-> JoinLines(<<TxtHi>>)]}
    \cup {[kind |-> k, raw |-> <<>>] :
             k \in {"undecodable", "unreadable", "unsupported", "missing"}}

\* main.py 95-105: the transcript the handler works with.  Only pasted text
\* is stripped.
TranscriptOf(inp) ==
    CASE inp.kind = "text" -> Strip(inp.raw)
      [] inp.kind \in {"txt", "docx"} -> inp.raw
      [] OTHER -> <<>>

\* The number of bytes of a text in UTF-8.
RECURSIVE Utf8Len(_)
Utf8Len(text) ==
    IF text = <<>> THEN 0
    ELSE (IF Head(text) < 128 THEN 1 ELSE IF Head(text) < 2048 THEN 2
          ELSE IF Head(text) < 65536 THEN 3 ELSE 4) + Utf8Len(Tail(text))

\* len(encoding.encode(text)): the byte-pair tokens of cl100k_base.  The
\* merges are data of the encoding; a token covers one byte or more, so the
\* count is 0 for the empty text and otherwise between 1 and the number of
\* bytes.
TokenCounts(text) == IF text = <<>> THEN {0} ELSE 1..Utf8Len(text)

\* log_tokens: the pairs (input_tokens, output_tokens) it can return.
LogTokens(input_text, output_text) ==
    TokenCounts(input_text) \X TokenCounts(output_text)

TemplateNames(templates) == {templates[i].name : i \in 1..Len(templates)}

\* next((t["prompt"] for t in templates if t["name"] == meeting_type), "")
PromptOf(templates, name) ==
    LET hits == {i \in 1..Len(templates) : templates[i].name = name}
    IN  IF hits = {} THEN Some(<<>>)
        ELSE templates[CHOOSE i \in hits : \A j \in hits : i <= j].prompt

\* Streamlit ends a script run by raising RerunException (or StopException)
\* out of an st call, when the user has acted on the page meanwhile.  It is
\* no Exception: it passes every `except Exception` of main.py and nothing
\* after the st call runs.
Ended(s) == [s EXCEPT !.pc = "idle", !.banners = @ \cup {Interrupted}]

\* st.error, st.warning or st.success shows its message.
Show(s, banner) == [s EXCEPT !.banners = @ \cup {banner}]

\* main.py 208-214: the feedback box and its button, which every script run
\* that gets there draws last.
FeedbackBox(s) == {[s EXCEPT !.pc = "idle"], Ended(s)}

\* A script run begins: main.py 50-59 draw the head of the sidebar, then
\* line 63 calls db.fetch_templates().
StartRun(p) ==
    /\ ui[p].pc = "idle"
    /\ \/ /\ \/ /\ CanCall(p, 1)
                /\ calls' = calls + 1
                /\ ui' = [ui EXCEPT ![p] =
                             [Rerun(@, "render", Now) EXCEPT !.pc = "sidebar"]]
             \/ /\ CanCall(p, 2)
                /\ calls' = calls + 2
                /\ ui' = [ui EXCEPT ![p] =
                             [Rerun(@, "generate", Now) EXCEPT !.pc = "sidebar"]]
          /\ Enter(p, "fetch_templates", <<>>)
       \/ /\ \E run \in {"render", "generate"} :
                ui' = [ui EXCEPT ![p] = Ended(Rerun(@, run, Now))]
          /\ UNCHANGED <<calls, op, pc, args, conn, pend, res, faults, tally,
                         seen, binds>>
    /\ UNCHANGED <<logTable, fbTable, seq, conns>>

\* main.py 78-81: the text area of a custom prompt and its warning, drawn
\* when the meeting type is "Custom Prompt".
CustomPromptBox(s) ==
    IF s.meeting_type # Some(NameCustomPrompt) THEN {s}
    ELSE {Ended(s)}
         \cup UNION {LET typed == [s EXCEPT !.custom_prompt = Some(t)]
                     IN  IF Strip(t) = <<>>
                         THEN {Ended(typed), Show(typed, WarnCustomPrompt)}
                         ELSE {typed} : t \in {<<>>, TxtAsk}}

\* main.py 66-75 for one choice of the select box.  The icon line 70 gives
\* st.info is six characters, the bytes of an emoji read in another
\* encoding: a Streamlit that checks icons raises, after meeting_type and
\* selected_prompt are assigned, and the except of line 74 shows the error;
\* one that does not check them shows the prompt.
Selected(s, templates, choice) ==
    LET sel == [s EXCEPT !.meeting_type = Some(choice),
                         !.prompt_defined = TRUE,
                         !.selected_prompt = PromptOf(templates, choice)]
    IN  {Ended(sel)}
        \cup CustomPromptBox(sel)
        \cup CustomPromptBox(Show(sel, ErrTemplates))

\* main.py 62-81: the template selection, once fetch_templates is back: the
\* sessions the sidebar can leave, the run going on (pc "main") or ended
\* inside an st call.
SidebarOutcomes(s, r) ==
    LET templates == r.list
        names == TemplateNames(templates)
        on == [s EXCEPT !.pc = "main"]
    IN  IF r.kind = "raise" \/ (templates # <<>> /\ NameGeneralMeeting \notin names)
        THEN {Ended(on), Show(on, ErrTemplates)}
        ELSE IF templates = <<>>
        THEN {Ended(on), Show(on, ErrNoTemplates)}
        ELSE {Ended(on)} \cup UNION {Selected(on, templates, c) : c \in names}

Sidebar(p) ==
    /\ ui[p].pc = "sidebar" /\ pc[p] = "returned"
    /\ \E s \in SidebarOutcomes(ui[p], res[p]) : ui' = [ui EXCEPT ![p] = s]
    /\ UNCHANGED <<calls, logTable, fbTable, seq, conns,
                   op, pc, args, conn, pend, res, faults, tally, seen, binds>>

\* main.py 90-114 and 171-172: the Generate Summary handler up to the call
\* of the LLM.  Lines 92-93 reset transcript and custom_prompt on every
\* press.  Reading the upload (97, 99) and the names transcript_text (105)
\* and selected_prompt (109) are outside any try: an exception there ends
\* the script run.
GenerateOutcomes(s, inp) ==
    LET pressed == [s EXCEPT !.pc = "idle", !.custom_prompt = Some(<<>>),
                             !.transcript = <<>>]
        read == [pressed EXCEPT !.transcript = TranscriptOf(inp)]
    IN  CASE inp.kind = "missing" -> {Show(pressed, Uncaught)}
          [] inp.kind = "undecodable" -> {Show(pressed, UncaughtDecode)}
          [] inp.kind = "unreadable" -> {Show(pressed, UncaughtDocx)}
          [] inp.kind = "unsupported" ->
                {Ended(pressed), Ended(Show(pressed, ErrUnsupported))}
                \cup FeedbackBox(Show(Show(pressed, ErrUnsupported), WarnTranscript))
          [] OTHER ->
                IF read.transcript = <<>>
                THEN {Ended(read)} \cup FeedbackBox(Show(read, WarnTranscript))
                ELSE {Ended(read),
                      IF s.meeting_type # Some(NameCustomPrompt) /\ ~s.prompt_defined
                      THEN Show(read, Uncaught)
                      ELSE [read EXCEPT !.pc = "llm", !.llm = "invoked"]}

Generate(p) ==
    /\ ui[p].pc = "main"
    /\ IF ui[p].run # "generate"
       THEN \E s \in FeedbackBox(ui[p]) : ui' = [ui EXCEPT ![p] = s]
       ELSE \/ ui' = [ui EXCEPT ![p] = Ended(@)]
            \/ \E inp \in Inputs :
                  \E s \in GenerateOutcomes(ui[p], inp) : ui' = [ui EXCEPT ![p] = s]
    /\ UNCHANGED <<calls, logTable, fbTable, seq, conns,
                   op, pc, args, conn, pend, res, faults, tally, seen, binds>>

\* A variant of the call that records the prompt the LLM was given, whatever
\* the meeting type (main.py 109).
UiLogArgsMutant(s, now) ==
    [event |-> Some("Meeting Summary"), model |-> Some("Ollama"),
     input_message |-> Get(s.session_state.transcript, <<>>),
     output_message |-> Get(s.session_state.response, <<>>),
     input_tokens |-> Get(s.session_state.input_tokens, 0),
     output_tokens |-> Get(s.session_state.output_tokens, 0),
     duration |-> Get(s.session_state.duration, 0),
     error_message |-> None,
     user_id |-> Get(s.session_state.user_id, ""),
     user_rating |-> None, user_feedback |-> Some(""), created_date |-> Some(now),
     custom_prompt |-> IF s.meeting_type = Some(NameCustomPrompt)
                       THEN s.custom_prompt ELSE s.selected_prompt]

\* The arguments of the db.log_entry call of main.py 135-151.
UiLogArgs(s, now) ==
    [event |-> Some("Meeting Summary"), model |-> Some("Ollama"),
     input_message |-> Get(s.session_state.transcript, <<>>),
     output_message |-> Get(s.session_state.response, <<>>),
     input_tokens |-> Get(s.session_state.input_tokens, 0),
     output_tokens |-> Get(s.session_state.output_tokens, 0),
     duration |-> Get(s.session_state.duration, 0),
     error_message |-> None,
     user_id |-> Get(s.session_state.user_id, ""),
     user_rating |-> None, user_feedback |-> Some(""), created_date |-> Some(now),
     custom_prompt |-> IF s.meeting_type = Some(NameCustomPrompt)
                       THEN s.custom_prompt ELSE None]

\* main.py 110-128 and 168-170: the LLM call ends.  When it raises, the
\* handler shows an error and is done.  When it returns, the handler counts
\* the tokens, takes the duration and saves them with the transcript, the
\* response and a user id in st.session_state.  When log_tokens raises (the
\* tokenizer fails, or the client returned None), the handler shows the
\* same error and saves nothing.
LlmReturn(p) ==
    /\ ui[p].pc = "llm"
    /\ \/ \E llm \in {"failed", "returned"} :
             LET failed == [ui[p] EXCEPT !.llm = llm]
             IN  \E s \in {Ended(failed)} \cup FeedbackBox(Show(failed, ErrGenerate)) :
                    ui' = [ui EXCEPT ![p] = s]
       \/ \E response \in {TxtAsk, <<>>} :
          \E tokens \in LogTokens(ui[p].transcript, response) :
             ui' = [ui EXCEPT ![p].pc = "show", ![p].llm = "returned",
                      ![p].session_state =
                         [transcript |-> Some(ui[p].transcript),
                          response |-> Some(response),
                          input_tokens |-> Some(tokens[1]),
                          output_tokens |-> Some(tokens[2]),
                          duration |-> Some(Now - ui[p].start),
                          user_id |-> Some(Now)]]
    /\ UNCHANGED <<calls, logTable, fbTable, seq, conns,
                   op, pc, args, conn, pend, res, faults, tally, seen, binds>>

\* main.py 133-151: st.text_area shows the summary, then db.log_entry is
\* called.  Streamlit can end the script run inside any st call, when the
\* user acts on the page meanwhile: its RerunException is no Exception and
\* passes the except of line 168.
ShowSummary(p) ==
    /\ ui[p].pc = "show"
    /\ \/ /\ ui' = [ui EXCEPT ![p].pc = "idle", ![p].banners = @ \cup {Interrupted}]
          /\ UNCHANGED <<op, pc, args, conn, pend, res, faults, tally, seen, binds>>
       \/ /\ pc[p] \in {"idle", "returned"}
          /\ ui' = [ui EXCEPT ![p].pc = "logging", ![p].logged = TRUE]
          /\ Enter(p, "log_entry", UiLogArgs(ui[p], Now))
    /\ UNCHANGED <<calls, logTable, fbTable, seq, conns>>

\* main.py 154-170: db.log_entry is back.  Its return value is not looked
\* at; an exception out of it is caught like one of the LLM.  The run can
\* also be ended inside st.download_button or st.error.
LogReturned(p) ==
    /\ ui[p].pc = "logging" /\ pc[p] = "returned"
    /\ LET back == [ui[p] EXCEPT !.logres = res[p]]
       IN  \E s \in {Ended(back)}
                    \cup (IF res[p].kind = "raise"
                          THEN FeedbackBox(Show(back, ErrGenerate))
                          ELSE FeedbackBox([back EXCEPT !.success_logged = TRUE])) :
              ui' = [ui EXCEPT ![p] = s]
    /\ UNCHANGED <<calls, logTable, fbTable, seq, conns,
                   op, pc, args, conn, pend, res, faults, tally, seen, binds>>

\* main.py 210: what the user typed into the feedback box before pressing
\* Submit Feedback.
FeedbackTexts == {"great"}

\* The arguments of the db.log_feedback call of main.py 181-187.
UiFeedbackArgs(s, text, now) ==
    [logid |-> Some(now),
     user_id |-> Get(s.session_state.user_id, ""),
     user_feedback |-> Some(text), user_rating |-> Some(3), created_date |-> Some(now)]

\* handle_feedback_submission, up to its call of db.log_feedback.
SubmitFeedback(p) ==
    /\ ui[p].pc = "idle"
    /\ CanCall(p, 1)
    /\ calls' = calls + 1
    /\ ui' = [ui EXCEPT ![p] = [Rerun(@, "feedback", Now) EXCEPT !.pc = "feedback"]]
    /\ \E text \in FeedbackTexts :
          Enter(p, "log_feedback", UiFeedbackArgs(ui[p], text, Now))
    /\ UNCHANGED <<logTable, fbTable, seq, conns>>

\* handle_feedback_submission, from the return of db.log_feedback on: the
\* st.success or st.error of 190, 194 and 198.
FeedbackReturned(p) ==
    /\ ui[p].pc = "feedback" /\ pc[p] = "returned"
    /\ LET back == [ui[p] EXCEPT !.pc = "idle", !.logres = res[p]]
           banner == IF res[p].kind = "raise" THEN ErrFeedback
                     ELSE IF res[p].bool THEN OkFeedback ELSE ErrFeedbackFailed
       IN  \E s \in {Ended(back), Show(back, banner)} : ui' = [ui EXCEPT ![p] = s]
    /\ UNCHANGED <<calls, logTable, fbTable, seq, conns,
                   op, pc, args, conn, pend, res, faults, tally, seen, binds>>

(***************************************************************************)
(* The specification.                                                      *)
(***************************************************************************)
Init ==
    /\ calls = 0
    /\ logTable = <<>>
    /\ fbTable = <<>>
    /\ seq = 0
    /\ conns = <<>>
    /\ op = [p \in Procs |-> "none"]
    /\ pc = [p \in Procs |-> "idle"]
    /\ args = [p \in Procs |-> <<>>]
    /\ conn = [p \in Procs |-> 0]
    /\ pend = [p \in Procs |-> NoOutcome]
    /\ res = [p \in Procs |-> NoOutcome]
    /\ faults = [p \in Procs |-> {}]
    /\ tally = [p \in Procs |-> NoTally]
    /\ seen = [p \in Procs |-> <<>>]
    /\ binds = [p \in Procs |-> <<>>]
    /\ ui = [p \in Procs |-> NewSession]

\* One step of a session: of the gateway call it is in, or of its script.
SessionStep(p) ==
    \/ GetConnection(p)
    \/ Begin(p)
    \/ Bind(p)
    \/ ExecuteLogEntry(p)
    \/ ExecuteFeedback(p)
    \/ ExecuteSelect(p)
    \/ Commit(p)
    \/ CursorExit(p)
    \/ Fetch(p)
    \/ Close(p)
    \/ Return(p)
    \/ StartRun(p)
    \/ Sidebar(p)
    \/ Generate(p)
    \/ LlmReturn(p)
    \/ ShowSummary(p)
    \/ LogReturned(p)
    \/ SubmitFeedback(p)
    \/ FeedbackReturned(p)

Next == \E p \in Procs : SessionStep(p)

Spec == Init /\ [][Next]_vars

\* The page with one session: the interactions of one user, one after the
\* other.
NextSession == SessionStep(1)

SpecSession == Init /\ [][NextSession]_vars

\* The three operations of the gateway under callers of its own, without
\* the page.
NextGateway ==
    \E p \in Procs :
         \/ DirectCall(p)
         \/ GetConnection(p)
         \/ Begin(p)
         \/ Bind(p)
         \/ ExecuteLogEntry(p)
         \/ ExecuteFeedback(p)
         \/ ExecuteSelect(p)
         \/ Commit(p)
         \/ CursorExit(p)
         \/ Fetch(p)
         \/ Close(p)
         \/ Return(p)

SpecGateway == Init /\ [][NextGateway]_vars

\* The gateway as DBOracle_test.py drives it: the connection is tried
\* first, then come the calls of the operations.
NextTest ==
    \/ NextGateway
    \/ \E p \in Procs :
         \/ TestConnection(p)
         \/ CheckConnection(p)

SpecTest == Init /\ [][NextTest]_vars

(***************************************************************************)
(* Properties.                                                             *)
(***************************************************************************)
InCall(p) == pc[p] \notin {"idle", "returned", "stopped"}
Returned(p, o) == op[p] = o /\ pc[p] = "returned"
Holders(c) == {p \in Procs : conn[p] = c /\ InCall(p)}

\* C1: no exception reaches the caller of log_entry, log_feedback or
\* fetch_templates, whichever driver call fails: every call that is over
\* has returned a value.
NoExceptionEscapes ==
    \A p \in Procs :
       op[p] \in Ops /\ pc[p] = "returned" => res[p].kind = "return"

\* C2: every connection a call of log_entry, log_feedback or
\* fetch_templates opened is closed exactly once within that call, on every
\* path: a connection is held by at most one call, close() is not called on
\* it before the finally block and is called there once, and a connection
\* no call in progress holds has been closed once and is not open.
ConnectionsClosedOnce ==
    \A c \in {d \in 1..Len(conns) : conns[d].by = "operation"} :
       /\ Cardinality({p \in Procs : conn[p] = c}) <= 1
       /\ conns[c].closes = IF conns[c].state = "open" THEN 0 ELSE 1
       /\ \A p \in Holders(c) : (conns[c].state = "open") <=> (pc[p] # "released")
       /\ Holders(c) = {} => conns[c].state # "open"

\* C2 witness: no call is in progress; one call ended on its exception path
\* (the statement failed), the other on its success path, and both
\* connections have been closed once.
ClosedOnBothPaths ==
    /\ \A p \in Procs : op[p] \in Ops /\ pc[p] = "returned" /\ conn[p] # 0
    /\ \E p, q \in Procs :
          /\ faults[p] = {"execute"} /\ faults[q] = {}
          /\ conn[p] # conn[q]
          /\ conns[conn[p]].closes = 1 /\ conns[conn[q]].closes = 1

\* C3: log_entry is atomic: a call that is over either returned True and
\* committed exactly one row, or returned False and committed none.
RecordEventAtomic ==
    \A p \in Procs :
       Returned(p, "log_entry") =>
          \/ res[p] = RetBool(TRUE) /\ tally[p].wrote = 1
          \/ res[p] = RetBool(FALSE) /\ tally[p].wrote = 0

Fields ==
    {"event", "model", "input_message", "output_message", "input_tokens",
     "output_tokens", "duration", "error_message", "user_id", "user_rating",
     "user_feedback", "created_date", "custom_prompt"}

LobFields == {"input_message", "output_message", "custom_prompt"}

Succeeded(p, o) == Returned(p, o) /\ res[p] = RetBool(TRUE)

\* The committed row that carries the LOGID the call's statement drew.
RowOf(p) ==
    logTable[CHOOSE i \in 1..Len(logTable) : logTable[i].logid = tally[p].logid]

\* A direct read of a row of the log table: the large objects are read out
\* as text, the other columns come as stored.
ReadBack(row) ==
    [f \in DOMAIN row |->
        IF f \in LobFields /\ row[f] # None
        THEN Some(LobRead(Val(row[f]))) ELSE row[f]]

\* C4, as claimed: after a successful log_entry the row read back holds, in
\* every field the caller supplied, the supplied value, empty strings and
\* zero included.
RoundTripAllFields ==
    \A p \in Procs :
       Succeeded(p, "log_entry") =>
          \A f \in Fields : args[p][f] # None => ReadBack(RowOf(p))[f] = args[p][f]

\* C5: under every interleaving of log_entry calls, each call has its own
\* connection, and every row's LOGID was drawn from the store's sequence and
\* differs from every other row's, committed or not.
LogIdsDistinctStoreAssigned ==
    /\ \A i, j \in 1..Len(logTable) :
          i # j => logTable[i].logid # logTable[j].logid
    /\ \A i \in 1..Len(logTable) : logTable[i].logid \in 1..seq
    /\ \A p, q \in Procs :
          p # q /\ op[p] = "log_entry" /\ op[q] = "log_entry" =>
             /\ conn[p] # 0 => conn[p] # conn[q]
             /\ tally[p].logid # 0 => tally[p].logid # tally[q].logid

\* C5 witness: two calls overlapped: the one that drew the first LOGID
\* committed second, and both rows are in the table.
TwoRowsCommittedOutOfOrder ==
    /\ \A p \in Procs : Succeeded(p, "log_entry")
    /\ Len(logTable) = 2
    /\ logTable[1].logid = 2 /\ logTable[2].logid = 1

\* C6: with no driver call failing, log_feedback returns True and adds
\* exactly one feedback row, whatever its log id; and no step of a
\* log_feedback call changes the log table or its sequence, or touches the
\* feedback table other than by appending that one row.
FeedbackNeedsNoEvent ==
    /\ [](\A p \in Procs :
            Returned(p, "log_feedback") /\ faults[p] = {} =>
               res[p] = RetBool(TRUE) /\ tally[p].wrote = 1)
    /\ [][\A p \in Procs :
            op'[p] = "log_feedback" /\ pc'[p] # pc[p] =>
               /\ logTable' = logTable /\ seq' = seq
               /\ \/ fbTable' = fbTable
                  \/ /\ pc'[p] = "committed"
                     /\ Len(fbTable') = Len(fbTable) + 1
                     /\ SubSeq(fbTable', 1, Len(fbTable)) = fbTable
                     /\ fbTable'[Len(fbTable')].logid = args[p].logid]_vars

\* C6 witness: a log_feedback call succeeded for a log id that no log row
\* has and that an earlier feedback row already carries.
FeedbackUnknownAndRepeated ==
    \E p \in Procs :
       /\ Succeeded(p, "log_feedback")
       /\ logTable = <<>>
       /\ Len(fbTable) = 2
       /\ fbTable[1].logid = args[p].logid /\ fbTable[2].logid = args[p].logid

\* C7: a fetch_templates call in which no driver call failed returns the
\* rows of the table, each once, in ascending order of name, the prompt of
\* each read out of its large object; for "Sales", "General Meeting",
\* "Custom Template" that is "Custom Template", "General Meeting", "Sales".
\* An empty table gives the empty list, and so does a failed read.
TemplatesOrderedByName ==
    \A p \in Procs :
       Returned(p, "fetch_templates") /\ res[p].kind = "return" =>
          LET found == res[p].list
              table == seen[p]
          IN  IF faults[p] # {} THEN found = <<>>
              ELSE /\ Len(found) = Len(table)
                   /\ \A i \in 1..Len(table) :
                         \E j \in 1..Len(found) :
                            /\ found[j].name = table[i].name
                            /\ found[j].icon = table[i].icon
                            /\ found[j].description = table[i].description
                            /\ found[j].prompt =
                                  IF table[i].prompt = None THEN None
                                  ELSE Some(Val(table[i].prompt).data)
                   /\ \A i, j \in 1..Len(found) :
                         i < j => NameLess(found[i].name, found[j].name)
                   /\ TemplateNames(table) =
                         {NameSales, NameGeneralMeeting, NameCustomTemplate} =>
                         [i \in 1..Len(found) |-> found[i].name] =
                            <<NameCustomTemplate, NameGeneralMeeting, NameSales>>

\* C7 witness: a successful read of the table that holds "Sales", "General
\* Meeting" and "Custom Template", in that storage order.
ThreeTemplatesFetched ==
    \E p \in Procs :
       /\ Returned(p, "fetch_templates") /\ faults[p] = {}
       /\ Len(seen[p]) = 3 /\ seen[p][1].name = NameSales
       /\ Len(res[p].list) = 3

\* The state of the per-operation state machine a position stands for.
StateOf(at) ==
    CASE at \in {"idle", "returned"} -> "Idle"
      [] at = "acquiring" -> "AcquiringConnection"
      [] at = "unavailable" -> "Unavailable"
      [] at = "connected" -> "Connected"
      [] at \in {"executing", "bound", "executed"} -> "Executing"
      [] at \in {"committed", "exited", "fetched"} -> "Committed"
      [] at = "uncommitted" -> "Uncommitted"
      [] at = "released" -> "ConnectionReleased"

MachineEdges ==
    {<<"Idle", "AcquiringConnection">>,
     <<"AcquiringConnection", "Unavailable">>,
     <<"AcquiringConnection", "Connected">>,
     <<"Connected", "Executing">>,
     <<"Executing", "Committed">>,
     <<"Executing", "Uncommitted">>,
     <<"Committed", "ConnectionReleased">>,
     <<"Uncommitted", "ConnectionReleased">>,
     <<"ConnectionReleased", "Idle">>,
     <<"Unavailable", "Idle">>}

\* C8: every step of a gateway call is an edge of the state machine Idle ->
\* AcquiringConnection -> (Unavailable | Connected -> Executing ->
\* (Committed | Uncommitted) -> ConnectionReleased); a call connects once,
\* executes at most one statement and commits at most once, so no failed
\* step is tried again; and a call that acquired a connection has closed it
\* when it hands its result back.
OperationStateMachine ==
    [][\A p \in Procs :
         op'[p] \in Ops =>
          /\ pc'[p] # pc[p] =>
                /\ <<StateOf(pc[p]), StateOf(pc'[p])>> \in MachineEdges
                   \/ (pc[p] = "executing" /\ pc'[p] = "bound")
                   \/ (pc[p] = "bound" /\ pc'[p] = "executed")
                   \/ (pc[p] = "committed" /\ pc'[p] = "exited")
          /\ tally'[p].connects <= 1
          /\ tally'[p].executes <= 1
          /\ tally'[p].commits <= 1
          /\ pc'[p] \notin {"idle", "acquiring"} => tally'[p].connects = 1
          /\ pc'[p] = "returned" /\ conn'[p] # 0 =>
                conns'[conn'[p]].closes = 1 /\ conns'[conn'[p]].state # "open"]_vars

\* C8 witness: a call whose commit failed is over: it connected once,
\* executed once, tried the commit once and closed its connection.
FailedCommitNotRetried ==
    \E p \in Procs :
       /\ op[p] \in Ops /\ pc[p] = "returned" /\ "commit" \in faults[p]
       /\ tally[p].connects = 1 /\ tally[p].executes = 1 /\ tally[p].commits = 1
       /\ conns[conn[p]].closes = 1

\* A script run or a feedback submission of the session is over.
RunOver(p, run) == ui[p].pc = "idle" /\ ui[p].run = run

\* C9: every summarization attempt is recorded: a Generate Summary run that
\* invoked the LLM has called log_entry by the time it is over, whether the
\* LLM returned or failed, and with an error message when it failed.
EveryAttemptRecorded ==
    \A p \in Procs :
       RunOver(p, "generate") /\ ui[p].llm # "none" =>
          /\ ui[p].logged
          /\ ui[p].llm = "failed" => args[p].error_message # None

\* C10: a logging failure is reported to the user: a request in which
\* log_entry or log_feedback returned False ends with an error banner of the
\* handler that made the call, and without the success being reported
\* (where Streamlit did not end the run first).
LoggingFailureReported ==
    \A p \in Procs :
       /\ ui[p].pc = "idle"
       /\ ui[p].logres = RetBool(FALSE)
       /\ Interrupted \notin ui[p].banners
       => /\ ui[p].banners \cap {ErrGenerate, ErrFeedbackFailed, ErrFeedback} # {}
          /\ ~ui[p].success_logged

\* The committed row of the log_entry call the session made.
Recorded(p) == op[p] = "log_entry" /\ ui[p].logged /\ tally[p].wrote = 1

\* C11: in every row recorded through the Generate Summary handler,
\* CUSTOM_PROMPT is non-null only when the selected meeting type is
\* "Custom Prompt": for every other meeting type the row's CUSTOM_PROMPT is
\* null.
CustomPromptOnlyForCustomType ==
    \A p \in Procs :
       Recorded(p) /\ ui[p].meeting_type # Some(NameCustomPrompt) =>
          RowOf(p).custom_prompt = None

\* C11 witness: a session that selected "General Meeting", whose template
\* has a prompt, generated a summary and its row is committed with a null
\* CUSTOM_PROMPT.
GeneralMeetingRowRecorded ==
    \E p \in Procs :
       /\ Recorded(p) /\ Succeeded(p, "log_entry")
       /\ ui[p].meeting_type = Some(NameGeneralMeeting)
       /\ Truthy(ui[p].selected_prompt)
       /\ RowOf(p).custom_prompt = None
       /\ RowOf(p).input_message # None

====
